---- MODULE Spec2Model ----
(***************************************************************************)
(* pybehaviortree: the tick protocol of a behavior tree (BehaviorTree.tick,*)
(* BaseNode._execute and its enter/open/tick/close/exit steps), the scoped *)
(* blackboard, and the composite nodes (Sequence, Selector, MemSequence,   *)
(* MemSelector), the decorator nodes (Inverter, Timeout, Count) and the    *)
(* PrintNode action.  One Tick action is one call of BehaviorTree.tick; the*)
(* results of the leaf actions and the readings of time.time() are the     *)
(* inputs of a tick.  The blackboard's own operations (set, get, keys) are *)
(* the actions of a second state machine over the same store.              *)
(***************************************************************************)
EXTENDS Integers, Sequences, FiniteSets, TLC

VARIABLES
    blackboard,   \* the BasicBlackboard shared by the ticks
    cls,          \* node id -> class of the node object
    children,     \* node id -> BaseNode.children (0-based in the code, 1-based here)
    root,         \* BehaviorTree.root
    ticks,        \* number of BehaviorTree.tick calls made so far
    last_tick,    \* what the most recent tick did (see NoTick for the fields)
    prev_returned, \* node id -> the status its _execute returned in the tick before
                  \* the most recent one (NoStatus when it was not executed)
    now,          \* the most recent reading of time.time()
    counted,      \* CountNode id -> number of ticks so far in which it was executed
    last_op,      \* the most recent call of set, get or keys made on the blackboard
                  \* from outside a tick (see NoOp for the fields), or the most
                  \* recent call made on held_info (see NoCall)
    held_info,    \* a TickInfo object whose methods are called directly
    run           \* what the ticks of the driving loop did so far to each node
                  \* (see NoRun)

vars == <<blackboard, cls, children, root, ticks, last_tick, prev_returned,
          now, counted, last_op, held_info, run>>

-----------------------------------------------------------------------------
\* Bounds of the model

MaxTicks == 3

\* the most the clock advances between two readings of time.time()
MaxLag == 1

\* the longest duration a TimeoutNode is configured with
MaxDuration == 1

\* the number of blackboard calls made from outside a tick
MaxOps == 3

-----------------------------------------------------------------------------
\* ResultType

SUCCESS == "SUCCESS"
FAILURE == "FAILURE"
RUNNING == "RUNNING"
ERROR == "ERROR"

ResultType == {SUCCESS, FAILURE, RUNNING, ERROR}

\* Python's None, as a scope argument and as the loop variable idx before the loop
None == "None"
NoIdx == -1

\* the value of `status` when no status was produced
NoStatus == "NoStatus"

-----------------------------------------------------------------------------
\* The trees that are built: node objects, their classes and children.

TreeId == "T1"

Nodes == {"A", "B", "C", "D", "E"}

CompositeClasses == {"SequenceNode", "SelectorNode", "MemSequenceNode", "MemSelectorNode"}

\* an action node under the node contract: its tick returns any ResultType
LeafClass == "Leaf"

\* A [D, B [C, E []]]: A, B and the childless E are composites of any class,
\* C and D are leaf actions.
TreeChildren ==
    [A |-> <<"D", "B">>, B |-> <<"C", "E">>, C |-> <<>>, D |-> <<>>, E |-> <<>>]

TreeClasses ==
    { [n \in Nodes |-> IF n \in {"C", "D"} THEN LeafClass ELSE k[n]] :
        k \in [{"A", "B", "E"} -> CompositeClasses] }

Leaves == {n \in Nodes : cls[n] = LeafClass}

\* the action node of actions.py that waits
WaitClass == "WaitNode"

\* a MemSequenceNode A over one to three distinct WaitNodes; the other nodes
\* are in no tree
WaitChildren ==
    { [A |-> c, B |-> <<>>, C |-> <<>>, D |-> <<>>, E |-> <<>>] :
        c \in {<<"B">>, <<"B", "C">>, <<"B", "C", "D">>} }

WaitTreeClasses ==
    [A |-> "MemSequenceNode", B |-> WaitClass, C |-> WaitClass, D |-> WaitClass,
     E |-> "SequenceNode"]

\* A [B [C], D]: the composite or decorator B comes before the leaf D, so a
\* tick can leave the path through B and C for the path to D; E is in no tree.
SiblingChildren ==
    [A |-> <<"B", "D">>, B |-> <<"C">>, C |-> <<>>, D |-> <<>>, E |-> <<>>]

SiblingTreeClasses ==
    { [A |-> a, B |-> b, C |-> LeafClass, D |-> LeafClass, E |-> "SequenceNode"] :
        a \in CompositeClasses, b \in CompositeClasses \cup {"InverterNode", "CountNode"} }

DecoratorClasses == {"InverterNode", "TimeoutNode", "CountNode"}

PrintClass == "PrintNode"

\* A [E, B [...], D]: A is a sequence, the leaf E decides whether the decorator
\* B is reached, B has no child, the leaf C, or C twice, and D is a PrintNode.
DecoratorChildren ==
    { [A |-> <<"E", "B", "D">>, B |-> c, C |-> <<>>, D |-> <<>>, E |-> <<>>] :
        c \in {<<>>, <<"C">>, <<"C", "C">>} }

DecoratorTreeClasses ==
    { [A |-> "SequenceNode", B |-> k, C |-> LeafClass, D |-> PrintClass, E |-> LeafClass] :
        k \in DecoratorClasses }

-----------------------------------------------------------------------------
\* BasicBlackboard.  A dict is a function from its keys; every operation that
\* goes through _get_memory may create the scopes it resolves, so each
\* operation has a value and a store-after.

EmptyDict == [k \in {} |-> None]

NewBlackboard == [base_memory |-> EmptyDict, tree_memory |-> EmptyDict]

DictSet(d, key, value) ==
    [k \in DOMAIN d \cup {key} |-> IF k = key THEN value ELSE d[k]]

\* the store after _get_tree_memory(tree_scope)
get_tree_memory(bb, tree_scope) ==
    IF tree_scope \in DOMAIN bb.tree_memory
    THEN bb
    ELSE [bb EXCEPT !.tree_memory =
            DictSet(@, tree_scope, [node_memory |-> EmptyDict, open_nodes |-> <<>>])]

\* the store after _get_node_memory(tree_memory, node_scope); the tree's memory exists
get_node_memory(bb, tree_scope, node_scope) ==
    IF node_scope \in DOMAIN bb.tree_memory[tree_scope].node_memory
    THEN bb
    ELSE [bb EXCEPT !.tree_memory[tree_scope].node_memory =
            DictSet(@, node_scope, EmptyDict)]

\* the store after _get_memory(tree_scope, node_scope)
get_memory(bb, tree_scope, node_scope) ==
    IF tree_scope # None
    THEN IF node_scope # None
         THEN get_node_memory(get_tree_memory(bb, tree_scope), tree_scope, node_scope)
         ELSE get_tree_memory(bb, tree_scope)
    ELSE bb

\* the dict _get_memory(tree_scope, node_scope) returns
memory(bb, tree_scope, node_scope) ==
    LET b == get_memory(bb, tree_scope, node_scope) IN
    IF tree_scope # None
    THEN IF node_scope # None
         THEN b.tree_memory[tree_scope].node_memory[node_scope]
         ELSE b.tree_memory[tree_scope]
    ELSE b.base_memory

\* the store after set(key, value, tree_scope, node_scope)
set(bb, key, value, tree_scope, node_scope) ==
    LET b == get_memory(bb, tree_scope, node_scope) IN
    IF tree_scope # None
    THEN IF node_scope # None
         THEN [b EXCEPT !.tree_memory[tree_scope].node_memory[node_scope] =
                    DictSet(@, key, value)]
         ELSE [b EXCEPT !.tree_memory[tree_scope] = DictSet(@, key, value)]
    ELSE [b EXCEPT !.base_memory = DictSet(@, key, value)]

\* the value get(key, tree_scope, node_scope, default) returns; the store
\* after it is get_memory(bb, tree_scope, node_scope)
get(bb, key, tree_scope, node_scope, default) ==
    LET m == memory(bb, tree_scope, node_scope) IN
    IF key \in DOMAIN m THEN m[key] ELSE default

\* the set of keys keys(tree_scope, node_scope) lists
keys(bb, tree_scope, node_scope) == DOMAIN memory(bb, tree_scope, node_scope)

-----------------------------------------------------------------------------
\* TickInfo.  Besides the fields of the class (tree, open_nodes, node_count,
\* blackboard) the record carries the status most recently returned, whether
\* an exception is propagating, the log of the hooks called so far, and the
\* lines printed so far.

NewTickInfo(tree, bb) ==
    [tree |-> tree, open_nodes |-> <<>>, node_count |-> 0, blackboard |-> bb,
     status |-> NoStatus, raised |-> FALSE, log |-> <<>>, printed |-> <<>>]

\* the is_open flag of (tree, node) as _execute would read it, without touching the store
IsOpen(bb, tree, node) ==
    /\ tree \in DOMAIN bb.tree_memory
    /\ node \in DOMAIN bb.tree_memory[tree].node_memory
    /\ "is_open" \in DOMAIN bb.tree_memory[tree].node_memory[node]
    /\ bb.tree_memory[tree].node_memory[node]["is_open"]

\* the keys of the scope of (tree, node), without touching the store
NodeKeys(bb, tree, node) ==
    IF tree \in DOMAIN bb.tree_memory /\ node \in DOMAIN bb.tree_memory[tree].node_memory
    THEN DOMAIN bb.tree_memory[tree].node_memory[node]
    ELSE {}

\* a hook call, with what the hook can observe when it is called
Event(ev, node, status, tick_info) ==
    [ev |-> ev, node |-> node, status |-> status,
     open_nodes |-> tick_info.open_nodes,
     node_count |-> tick_info.node_count,
     is_open |-> IsOpen(tick_info.blackboard, tick_info.tree, node),
     keys |-> NodeKeys(tick_info.blackboard, tick_info.tree, node)]

Logged(tick_info, ev, node, status) ==
    [tick_info EXCEPT !.log = Append(@, Event(ev, node, status, tick_info))]

\* a variant that pushes the node and leaves the counter alone
enter_node_uncounted(tick_info, node) ==
    [tick_info EXCEPT !.open_nodes = Append(@, node)]

\* TickInfo.enter_node
enter_node(tick_info, node) ==
    [tick_info EXCEPT !.node_count = @ + 1, !.open_nodes = Append(@, node)]

\* TickInfo.close_node: open_nodes[-1] of an empty list raises IndexError
close_node(tick_info, node) ==
    IF tick_info.open_nodes = <<>>
    THEN [tick_info EXCEPT !.raised = TRUE]
    ELSE IF node = tick_info.open_nodes[Len(tick_info.open_nodes)]
         THEN [tick_info EXCEPT !.open_nodes = SubSeq(@, 1, Len(@) - 1)]
         ELSE tick_info

-----------------------------------------------------------------------------
\* BaseNode: the steps of _execute

\* _enter: enter_node, then the enter hook
enter(node, tick_info) ==
    Logged(enter_node(tick_info, node), "enter", node, NoStatus)

\* a variant that opens on every _execute, whatever is_open holds
needs_open_always(tick_info, node) == TRUE

\* the test of _execute that decides whether _open is called
needs_open(tick_info, node) ==
    ~ get(tick_info.blackboard, "is_open", tick_info.tree, node, FALSE)

\* the open hook of the node's class: TimeoutNode.open and WaitNode.open store
\* the reading of time.time(), the other classes keep BaseNode.open, a no-op
open_hook(node, tick_info, leaf) ==
    Logged(
        IF cls[node] \in {"TimeoutNode", WaitClass}
        THEN [tick_info EXCEPT !.blackboard =
                set(@, "start_time", leaf["time_open"], tick_info.tree, node)]
        ELSE tick_info,
        "open", node, NoStatus)

\* a variant that sets is_open under the scope of the tree T1
open_under_T1(node, tick_info, leaf) ==
    open_hook(node,
        [tick_info EXCEPT !.blackboard = set(@, "is_open", TRUE, TreeId, node)],
        leaf)

\* _open: set is_open, then the open hook
open(node, tick_info, leaf) ==
    open_hook(node,
        [tick_info EXCEPT !.blackboard = set(@, "is_open", TRUE, tick_info.tree, node)],
        leaf)

\* a variant that closes on Success and Failure only
needs_close_unless_error(status) == status \in {SUCCESS, FAILURE}

\* the test of _execute that decides whether _close is called
needs_close(status) == status # RUNNING

\* _close: close_node, set is_open, then the close hook
close(node, tick_info) ==
    LET t1 == close_node(tick_info, node) IN
    IF t1.raised
    THEN t1
    ELSE Logged(
            [t1 EXCEPT !.blackboard = set(@, "is_open", FALSE, t1.tree, node)],
            "close", node, t1.status)

\* _exit: the exit hook
exit(node, tick_info) ==
    Logged(tick_info, "exit", node, tick_info.status)

-----------------------------------------------------------------------------
\* The nodes' tick methods and _execute.  `leaf` gives the result each leaf
\* action returns when it is ticked in this tick of the tree, and what
\* time.time() returns in an open hook ("time_open") and in a tick method
\* ("time_tick") of this tick.

RECURSIVE WaitConfigured(_, _, _)
RECURSIVE execute(_, _, _)
RECURSIVE tick(_, _, _)
RECURSIVE SequenceNode_tick(_, _, _, _)
RECURSIVE SelectorNode_tick(_, _, _, _)
RECURSIVE MemSequenceNode_loop(_, _, _, _)
RECURSIVE MemSelectorNode_loop(_, _, _, _)

\* F(v) with v computed once, as a call's result assigned to a local variable
\* is; the comparison y = y puts the value in TLC's normal form before F
\* derives other values from it with EXCEPT
Bind(v, F(_)) == CHOOSE r \in {F(x) : x \in {y \in {v} : y = y}} : TRUE

Returns(tick_info, status) == [tick_info EXCEPT !.status = status]

\* the leaf action's tick
Leaf_tick(node, tick_info, leaf) == Returns(tick_info, leaf[node])

\* a variant that goes on to the next child after an Error
SequenceNode_stops_not_on_error(status) == status \in {FAILURE, RUNNING}

\* a variant that ends the iteration after the first child
SequenceNode_stops_always(status) == TRUE

\* SequenceNode.tick: the test that ends the iteration
SequenceNode_stops(status) == status # SUCCESS

\* SequenceNode.tick, from the child at (0-based) idx on
SequenceNode_tick(node, tick_info, leaf, idx) ==
    IF idx >= Len(children[node])
    THEN Returns(tick_info, SUCCESS)
    ELSE Bind(execute(children[node][idx + 1], tick_info, leaf), LAMBDA t1 :
            IF t1.raised \/ SequenceNode_stops(t1.status)
            THEN t1
            ELSE SequenceNode_tick(node, t1, leaf, idx + 1))

\* a variant that ends the iteration on Success only
SelectorNode_stops_on_success(status) == status = SUCCESS

\* SelectorNode.tick: the test that ends the iteration
SelectorNode_stops(status) == status # FAILURE

\* SelectorNode.tick, from the child at (0-based) idx on
SelectorNode_tick(node, tick_info, leaf, idx) ==
    IF idx >= Len(children[node])
    THEN Returns(tick_info, FAILURE)
    ELSE Bind(execute(children[node][idx + 1], tick_info, leaf), LAMBDA t1 :
            IF t1.raised \/ SelectorNode_stops(t1.status)
            THEN t1
            ELSE SelectorNode_tick(node, t1, leaf, idx + 1))

\* a variant that forgets the saved index
MemSequenceNode_start_zero(node, tick_info) == 0

\* MemSequenceNode.tick: the index the iteration starts at
MemSequenceNode_start(node, tick_info) ==
    get(tick_info.blackboard, "running_child_idx", tick_info.tree, node, 0)

\* MemSequenceNode.tick: what is saved when the child at idx returns Running
MemSequenceNode_save(node, tick_info, idx) ==
    [tick_info EXCEPT !.blackboard =
        set(@, "running_child_idx", idx, tick_info.tree, node)]

\* MemSequenceNode.tick: the loop over range(idx, len(children))
MemSequenceNode_loop(node, tick_info, leaf, idx) ==
    IF idx >= Len(children[node])
    THEN Returns(tick_info, SUCCESS)
    ELSE Bind(execute(children[node][idx + 1], tick_info, leaf), LAMBDA t1 :
            IF t1.raised THEN t1
            ELSE IF t1.status = RUNNING THEN MemSequenceNode_save(node, t1, idx)
            ELSE IF t1.status # SUCCESS THEN t1
            ELSE MemSequenceNode_loop(node, t1, leaf, idx + 1))

MemSequenceNode_tick(node, tick_info, leaf) ==
    MemSequenceNode_loop(
        node,
        [tick_info EXCEPT !.blackboard = get_memory(@, tick_info.tree, node)],
        leaf,
        MemSequenceNode_start(node, tick_info))

\* MemSelectorNode.tick: the index the iteration starts at
MemSelectorNode_start(node, tick_info) ==
    get(tick_info.blackboard, "running_child_idx", tick_info.tree, node, 0)

\* MemSelectorNode.tick: what is saved when the child at idx returns Running
MemSelectorNode_save(node, tick_info, idx) ==
    [tick_info EXCEPT !.blackboard =
        set(@, "running_child-idx", idx, tick_info.tree, node)]

\* MemSelectorNode.tick: the loop over range(idx, len(children))
MemSelectorNode_loop(node, tick_info, leaf, idx) ==
    IF idx >= Len(children[node])
    THEN Returns(tick_info, FAILURE)
    ELSE Bind(execute(children[node][idx + 1], tick_info, leaf), LAMBDA t1 :
            IF t1.raised THEN t1
            ELSE IF t1.status = RUNNING THEN MemSelectorNode_save(node, t1, idx)
            ELSE IF t1.status # FAILURE THEN t1
            ELSE MemSelectorNode_loop(node, t1, leaf, idx + 1))

MemSelectorNode_tick(node, tick_info, leaf) ==
    MemSelectorNode_loop(
        node,
        [tick_info EXCEPT !.blackboard = get_memory(@, tick_info.tree, node)],
        leaf,
        MemSelectorNode_start(node, tick_info))

\* a variant that accepts any positive number of children
wrong_child_count_zero(node) == Len(children[node]) = 0

\* the decorators' test len(self.children) != 1
wrong_child_count(node) == Len(children[node]) # 1

\* a variant that passes every status through
InverterNode_result_same(status) == status

\* InverterNode.tick: the status returned for the child's status
InverterNode_result(status) ==
    IF status = SUCCESS THEN FAILURE
    ELSE IF status = FAILURE THEN SUCCESS
    ELSE status

InverterNode_tick(node, tick_info, leaf) ==
    IF wrong_child_count(node)
    THEN Returns(tick_info, ERROR)
    ELSE Bind(execute(children[node][1], tick_info, leaf), LAMBDA t1 :
            IF t1.raised THEN t1 ELSE Returns(t1, InverterNode_result(t1.status)))

\* TimeoutNode.set_duration
set_duration(bb, node, duration, tree_id) == set(bb, "duration", duration, tree_id, node)

\* a variant that also fails when the elapsed time equals the duration
TimeoutNode_expired_at_duration(elapsed, timeout_duration) == elapsed >= timeout_duration

\* TimeoutNode.tick: time.time() - start_time > timeout_duration
TimeoutNode_expired(elapsed, timeout_duration) == elapsed > timeout_duration

\* TimeoutNode.tick; both gets default to None, and None in the comparison
\* raises TypeError
TimeoutNode_tick(node, tick_info, leaf) ==
    IF wrong_child_count(node)
    THEN Returns(tick_info, ERROR)
    ELSE Bind([tick_info EXCEPT !.blackboard = get_memory(@, tick_info.tree, node)],
              LAMBDA t0 :
            IF {"duration", "start_time"} \subseteq NodeKeys(t0.blackboard, t0.tree, node)
            THEN IF TimeoutNode_expired(
                        leaf["time_tick"]
                            - get(t0.blackboard, "start_time", t0.tree, node, None),
                        get(t0.blackboard, "duration", t0.tree, node, None))
                 THEN Returns(t0, FAILURE)
                 ELSE execute(children[node][1], t0, leaf)
            ELSE [t0 EXCEPT !.raised = TRUE])

\* WaitNode.tick: time.time() - start_time < wait_duration
WaitNode_waiting(elapsed, wait_duration) == elapsed < wait_duration

\* WaitNode.tick; both gets default to None, and None in the comparison raises
\* TypeError
WaitNode_tick(node, tick_info, leaf) ==
    Bind([tick_info EXCEPT !.blackboard = get_memory(@, tick_info.tree, node)],
         LAMBDA t0 :
        IF {"duration", "start_time"} \subseteq NodeKeys(t0.blackboard, t0.tree, node)
        THEN IF WaitNode_waiting(
                    leaf["time_tick"]
                        - get(t0.blackboard, "start_time", t0.tree, node, None),
                    get(t0.blackboard, "duration", t0.tree, node, None))
             THEN Returns(t0, RUNNING)
             ELSE Returns(t0, SUCCESS)
        ELSE [t0 EXCEPT !.raised = TRUE])

\* a variant that stores the count it read
CountNode_incremented_not(count) == count

\* CountNode.tick: count += 1
CountNode_incremented(count) == count + 1

\* a variant that runs the child through _execute
CountNode_child_execute(child, tick_info, leaf) == execute(child, tick_info, leaf)

\* CountNode.tick: self.children[0].tick(tick_info)
CountNode_child_tick(child, tick_info, leaf) == tick(child, tick_info, leaf)

CountNode_tick(node, tick_info, leaf) ==
    IF wrong_child_count(node)
    THEN Returns(tick_info, ERROR)
    ELSE Bind(CountNode_incremented(
                get(tick_info.blackboard, "count", tick_info.tree, node, 0)),
              LAMBDA count :
         Bind(CountNode_child_tick(
                children[node][1],
                [tick_info EXCEPT !.blackboard = get_memory(@, tick_info.tree, node)],
                leaf),
              LAMBDA t1 :
            IF t1.raised
            THEN t1
            ELSE [t1 EXCEPT !.blackboard = set(@, "count", count, t1.tree, node)]))

\* PrintNode.set_key, set_node_id and set_tree_id
set_key(bb, node, key, own_tree_id) == set(bb, "print_key", key, own_tree_id, node)
set_node_id(bb, node, other_node_id, own_tree_id) ==
    set(bb, "other_node_id", other_node_id, own_tree_id, node)
set_tree_id(bb, node, other_tree_id, own_tree_id) ==
    set(bb, "other_tree_id", other_tree_id, own_tree_id, node)

\* what print writes for the value get(key, tree_scope, node_scope) returns
printed_value(bb, key, tree_scope, node_scope) ==
    IF key \in keys(bb, tree_scope, node_scope)
    THEN ToString(get(bb, key, tree_scope, node_scope, None))
    ELSE "None"

\* PrintNode.tick
PrintNode_tick(node, tick_info) ==
    Bind([tick_info EXCEPT !.blackboard = get_memory(@, tick_info.tree, node)],
         LAMBDA t0 :
        IF "print_key" \notin NodeKeys(t0.blackboard, t0.tree, node)
        THEN Returns(t0, ERROR)
        ELSE LET print_key == get(t0.blackboard, "print_key", t0.tree, node, None)
                 tree_id == get(t0.blackboard, "other_tree_id", t0.tree, node, None)
                 node_id == get(t0.blackboard, "other_node_id", t0.tree, node, None)
             IN  Returns(
                    [t0 EXCEPT
                        !.blackboard = get_memory(@, tree_id, node_id),
                        !.printed = Append(@,
                            printed_value(t0.blackboard, print_key, tree_id, node_id))],
                    SUCCESS))

\* the tick method of the node's class
class_tick(node, tick_info, leaf) ==
    CASE cls[node] = "SequenceNode" -> SequenceNode_tick(node, tick_info, leaf, 0)
      [] cls[node] = "SelectorNode" -> SelectorNode_tick(node, tick_info, leaf, 0)
      [] cls[node] = "MemSequenceNode" -> MemSequenceNode_tick(node, tick_info, leaf)
      [] cls[node] = "MemSelectorNode" -> MemSelectorNode_tick(node, tick_info, leaf)
      [] cls[node] = "InverterNode" -> InverterNode_tick(node, tick_info, leaf)
      [] cls[node] = "TimeoutNode" -> TimeoutNode_tick(node, tick_info, leaf)
      [] cls[node] = "CountNode" -> CountNode_tick(node, tick_info, leaf)
      [] cls[node] = PrintClass -> PrintNode_tick(node, tick_info)
      [] cls[node] = WaitClass -> WaitNode_tick(node, tick_info, leaf)
      [] OTHER -> Leaf_tick(node, tick_info, leaf)

\* _tick: the call of the node's tick method and its return
tick(node, tick_info, leaf) ==
    Bind(class_tick(node, Logged(tick_info, "tick", node, NoStatus), leaf), LAMBDA t1 :
        IF t1.raised THEN t1 ELSE Logged(t1, "ticked", node, t1.status))

\* BaseNode._execute
execute(node, tick_info, leaf) ==
    Bind(enter(node, tick_info), LAMBDA t1 :
    Bind(IF needs_open(t1, node)
         THEN open(node, t1, leaf)
         ELSE [t1 EXCEPT !.blackboard = get_memory(@, t1.tree, node)], LAMBDA t2 :
    Bind(tick(node, t2, leaf), LAMBDA t3 :
        IF t3.raised THEN t3
        ELSE IF needs_close(t3.status)
        THEN Bind(close(node, t3), LAMBDA t4 :
                IF t4.raised THEN t4 ELSE exit(node, t4))
        ELSE exit(node, t3))))

-----------------------------------------------------------------------------
\* BehaviorTree.tick

Min(a, b) == IF a < b THEN a ELSE b

\* the value of idx after the loop over enumerate(zip(last, current)): None
\* when the zip is empty, else the first position (0-based) whose pair
\* differs, else the last position of the zip
diff_idx(last_open_nodes, current_open_nodes) ==
    LET n == Min(Len(last_open_nodes), Len(current_open_nodes))
        differ == {i \in 1..n : last_open_nodes[i] # current_open_nodes[i]}
    IN  IF n = 0 THEN NoIdx
        ELSE IF differ = {} THEN n - 1
        ELSE (CHOOSE i \in differ : \A j \in differ : i <= j) - 1

Reversed(s) == [i \in 1..Len(s) |-> s[Len(s) + 1 - i]]

\* a variant that closes the whole list of the last tick
nodes_to_close_all(last_open_nodes, idx) == Reversed(last_open_nodes)

\* a variant that slices from idx: reversed(last_open_nodes[idx:])
nodes_to_close_from_idx(last_open_nodes, idx) ==
    Reversed(SubSeq(last_open_nodes, idx + 1, Len(last_open_nodes)))

\* reversed(last_open_nodes[idx+1:])
nodes_to_close(last_open_nodes, idx) ==
    Reversed(SubSeq(last_open_nodes, idx + 2, Len(last_open_nodes)))

RECURSIVE close_all(_, _)
\* for node in ...: node._close(tick_info)
close_all(nodes, tick_info) ==
    IF nodes = <<>> \/ tick_info.raised
    THEN tick_info
    ELSE Bind(close(Head(nodes), tick_info), LAMBDA t1 : close_all(Tail(nodes), t1))

\* the diff step of tick: close the nodes of the last tick's list past idx
close_last_open_nodes(last_open_nodes, tick_info) ==
    Bind(diff_idx(last_open_nodes, tick_info.open_nodes), LAMBDA idx :
        IF idx # NoIdx
        THEN close_all(nodes_to_close(last_open_nodes, idx), tick_info)
        ELSE tick_info)

\* What one call of tick does: the store after it, the status it returns
\* (NoStatus with raised when an exception leaves it) and, for the record,
\* the store it started from, the store and the hooks called (log) when
\* root._execute returned, the lists the diff step compared, the hooks
\* the diff step called (closed), the visit counter when root._execute
\* returned and the lines printed.
BehaviorTree_tick(tree, bb, leaf) ==
    Bind(execute(root, NewTickInfo(tree, bb), leaf), LAMBDA t1 :
    Bind(get(t1.blackboard, "open_nodes", tree, None, None), LAMBDA last_open_nodes :
    Bind(IF t1.raised
         THEN t1
         ELSE close_last_open_nodes(
                last_open_nodes,
                [t1 EXCEPT !.blackboard = get_memory(@, tree, None), !.log = <<>>]),
         LAMBDA t2 :
        [blackboard |->
            IF t2.raised
            THEN t2.blackboard
            ELSE set(set(t2.blackboard, "open_nodes", t2.open_nodes, tree, None),
                     "node_count", t2.node_count, tree, None),
         status |-> IF t2.raised THEN NoStatus ELSE t1.status,
         raised |-> t2.raised,
         log |-> t1.log,
         closed |-> IF t1.raised THEN <<>> ELSE t2.log,
         last_open_nodes |-> IF t1.raised THEN <<>> ELSE last_open_nodes,
         current_open_nodes |-> t1.open_nodes,
         tree |-> tree,
         pre_blackboard |-> bb,
         exec_blackboard |-> t1.blackboard,
         node_count |-> t1.node_count,
         printed |-> t1.printed])))

-----------------------------------------------------------------------------
\* The state machine

\* the status _execute of node returned in a tick with this log of hook calls
Returned(log, node) ==
    IF \E i \in 1..Len(log) : log[i].ev = "exit" /\ log[i].node = node
    THEN log[CHOOSE i \in 1..Len(log) : log[i].ev = "exit" /\ log[i].node = node].status
    ELSE NoStatus

\* last_tick before any tick
NoTick ==
    [blackboard |-> NewBlackboard, status |-> NoStatus, raised |-> FALSE,
     log |-> <<>>, closed |-> <<>>,
     last_open_nodes |-> <<>>, current_open_nodes |-> <<>>, tree |-> None,
     pre_blackboard |-> NewBlackboard, exec_blackboard |-> NewBlackboard,
     node_count |-> 0, printed |-> <<>>]

\* last_op before any call made from outside a tick
NoOp ==
    [op |-> "none", key |-> None, tree_scope |-> None, node_scope |-> None,
     raised |-> FALSE, pre_blackboard |-> NewBlackboard, calls |-> 0]

\* run before the loop's first tick: no node was opened, and none returned
\* Success; reran tells whether a node was executed in a tick after one in
\* which it returned Success
NoRun ==
    [opened |-> [n \in Nodes |-> 0], succeeded |-> [n \in Nodes |-> 0],
     reran |-> FALSE]

\* the number of events ev of node in a tick's log
NumEvents(log, ev, node) ==
    Cardinality({i \in 1..Len(log) : log[i].ev = ev /\ log[i].node = node})

\* run after one more tick with the given log
Ran(log) ==
    [opened |-> [n \in Nodes |-> run.opened[n] + NumEvents(log, "open", n)],
     succeeded |-> [n \in Nodes |->
        run.succeeded[n] + IF Returned(log, n) = SUCCESS THEN 1 ELSE 0],
     reran |-> \/ run.reran
               \/ \E n \in Nodes :
                     run.succeeded[n] > 0 /\ NumEvents(log, "enter", n) > 0]

\* the nodes whose executions are counted
CountNodes == {n \in Nodes : cls[n] = "CountNode"}

\* a tree of composites over leaf actions, and a new blackboard
Init ==
    /\ blackboard = NewBlackboard
    /\ children = TreeChildren
    /\ cls \in TreeClasses
    /\ root = "A"
    /\ ticks = 0
    /\ last_tick = NoTick
    /\ prev_returned = [n \in Nodes |-> NoStatus]
    /\ now = 0
    /\ counted = [n \in CountNodes |-> 0]
    /\ last_op = NoOp
    /\ held_info = NewTickInfo(TreeId, NewBlackboard)
    /\ run = NoRun

\* the blackboard after the PrintNode D was set up to print the count of B
PrintConfigured ==
    set_tree_id(
        set_node_id(set_key(NewBlackboard, "D", "count", TreeId), "D", "B", TreeId),
        "D", TreeId, TreeId)

\* a sequence over a decorator and a PrintNode; a TimeoutNode is given a
\* duration with set_duration, or none
InitDec ==
    /\ children \in DecoratorChildren
    /\ cls \in DecoratorTreeClasses
    /\ root = "A"
    /\ \/ blackboard = PrintConfigured
       \/ /\ cls["B"] = "TimeoutNode"
          /\ \E duration \in 0..MaxDuration :
                blackboard = set_duration(PrintConfigured, "B", duration, TreeId)
    /\ ticks = 0
    /\ last_tick = NoTick
    /\ prev_returned = [n \in Nodes |-> NoStatus]
    /\ now = 0
    /\ counted = [n \in CountNodes |-> 0]
    /\ last_op = NoOp
    /\ held_info = NewTickInfo(TreeId, NewBlackboard)
    /\ run = NoRun

\* how far the clock may advance between the open hooks and the tick methods
\* of one tick; only a TimeoutNode reads the clock
Lags == IF \E n \in Nodes : cls[n] = "TimeoutNode" THEN 0..MaxLag ELSE {0}

\* the inputs of a tick: the leaf results and the readings of time.time()
Inputs(leaf, lag) ==
    [k \in DOMAIN leaf \cup {"time_open", "time_tick"} |->
        IF k = "time_open" THEN now
        ELSE IF k = "time_tick" THEN now + lag
        ELSE leaf[k]]

\* one call of tree.tick(blackboard), the leaf actions returning one of results
TickOf(tree, results) ==
    /\ ticks < MaxTicks
    /\ \E leaf \in [Leaves -> results], lag \in Lags :
       \E r \in {BehaviorTree_tick(tree, blackboard, Inputs(leaf, lag))} :
          /\ blackboard' = r.blackboard
          /\ last_tick' = r
          /\ prev_returned' = [n \in Nodes |-> Returned(last_tick.log, n)]
          /\ now' = now + lag
          /\ counted' = [n \in CountNodes |->
                IF \E i \in 1..Len(r.log) : r.log[i].ev = "enter" /\ r.log[i].node = n
                THEN counted[n] + 1
                ELSE counted[n]]
    /\ ticks' = ticks + 1
    /\ UNCHANGED <<cls, children, root, last_op, held_info, run>>

\* the tree T1 ticked
Tick == TickOf(TreeId, ResultType)

Next == Tick

Spec == Init /\ [][Next]_vars

\* the ticks of the trees with a decorator
SpecDec == InitDec /\ [][Next]_vars

\* a tree whose first child has a child of its own, and a new blackboard
InitSibling ==
    /\ blackboard = NewBlackboard
    /\ children = SiblingChildren
    /\ cls \in SiblingTreeClasses
    /\ root = "A"
    /\ ticks = 0
    /\ last_tick = NoTick
    /\ prev_returned = [n \in Nodes |-> NoStatus]
    /\ now = 0
    /\ counted = [n \in CountNodes |-> 0]
    /\ last_op = NoOp
    /\ held_info = NewTickInfo(TreeId, NewBlackboard)
    /\ run = NoRun

\* the ticks of the trees A [B [C], D]
SpecSibling == InitSibling /\ [][Next]_vars

\* a second BehaviorTree object with the same root
OtherTreeId == "T2"

Trees == {TreeId, OtherTreeId}

\* A [B [C], D] with a decorator B, referenced by two trees that are ticked
\* with one blackboard; a TimeoutNode is given a duration under each tree
InitShared ==
    /\ children = SiblingChildren
    /\ cls \in { [A |-> a, B |-> b, C |-> LeafClass, D |-> LeafClass,
                  E |-> "SequenceNode"] :
                    a \in CompositeClasses, b \in DecoratorClasses }
    /\ root = "A"
    /\ \/ blackboard = NewBlackboard
       \/ /\ cls["B"] = "TimeoutNode"
          /\ \E duration \in 0..MaxDuration :
                blackboard =
                    set_duration(set_duration(NewBlackboard, "B", duration, TreeId),
                                 "B", duration, OtherTreeId)
    /\ ticks = 0
    /\ last_tick = NoTick
    /\ prev_returned = [n \in Nodes |-> NoStatus]
    /\ now = 0
    /\ counted = [n \in CountNodes |-> 0]
    /\ last_op = NoOp
    /\ held_info = NewTickInfo(TreeId, NewBlackboard)
    /\ run = NoRun

\* the results of the leaf actions of the shared trees
SharedResults == {SUCCESS, FAILURE, RUNNING}

\* the tree T1 ticked
TickFirst == TickOf(TreeId, SharedResults)

\* the tree T2 ticked
TickOther == TickOf(OtherTreeId, SharedResults)

NextShared == TickFirst \/ TickOther

\* the ticks of two trees over the same nodes and the same blackboard
SpecShared == InitShared /\ [][NextShared]_vars

\* the blackboard after set_duration was called for each of the nodes
WaitConfigured(bb, nodes, duration) ==
    IF nodes = <<>>
    THEN bb
    ELSE WaitConfigured(
            set_duration(bb, Head(nodes), duration[Head(nodes)], TreeId),
            Tail(nodes), duration)

\* the longest duration given to a WaitNode
MaxWait == 2

\* a MemSequenceNode over WaitNodes, each given a duration with set_duration
InitDrive ==
    /\ children \in WaitChildren
    /\ cls = WaitTreeClasses
    /\ root = "A"
    /\ \E duration \in [{"B", "C", "D"} -> 0..MaxWait] :
          blackboard = WaitConfigured(NewBlackboard, children["A"], duration)
    /\ ticks = 0
    /\ last_tick = NoTick
    /\ prev_returned = [n \in Nodes |-> NoStatus]
    /\ now = 0
    /\ counted = [n \in CountNodes |-> 0]
    /\ last_op = NoOp
    /\ held_info = NewTickInfo(TreeId, NewBlackboard)
    /\ run = NoRun

\* the condition of the loop: the tree was not ticked yet, or returned Running
Looping == last_tick = NoTick \/ (~last_tick.raised /\ last_tick.status = RUNNING)

\* one iteration of the loop that ticks while the tree returns Running; the
\* clock may stand still or advance between two readings, and ticks counts no
\* further than MaxTicks
Drive ==
    /\ Looping
    /\ \E lag \in 0..MaxLag :
       \E r \in {BehaviorTree_tick(TreeId, blackboard, Inputs(<<>>, lag))} :
          /\ blackboard' = r.blackboard
          /\ last_tick' = r
          /\ prev_returned' = [n \in Nodes |-> Returned(last_tick.log, n)]
          /\ now' = now + lag
          /\ run' = Ran(r.log)
    /\ ticks' = Min(ticks + 1, MaxTicks)
    /\ UNCHANGED <<cls, children, root, counted, last_op, held_info>>

NextDrive == Drive

\* the loop alone
SpecDrive == InitDrive /\ [][NextDrive]_vars

\* an iteration of the loop during which the clock advanced: of the steps of
\* SpecDrive exactly the Drive steps with a lag above 0, and enabled exactly
\* when Drive is
ClockAdvances == Looping /\ now' \in {now + lag : lag \in 1..MaxLag}

\* the loop keeps running while its condition holds, and the clock does not
\* stand still forever
FairDrive == SpecDrive /\ WF_now(ClockAdvances)

-----------------------------------------------------------------------------
\* The blackboard used directly: set, get and keys called from outside a tick

\* a value that is not a dict (an int), told apart from a dict by its one field
Scalar(i) == [scalar |-> i]

IsDict(value) == "scalar" \notin DOMAIN value

\* the values stored and the defaults passed
Values == {Scalar(1), EmptyDict}
Defaults == {Scalar(0)}

\* the keys used: an ordinary one and the one under which a tree's dict keeps
\* the dict of its node scopes
KeyNames == {"k", "node_memory"}

\* the scopes (tree_scope, node_scope): global, the tree, two nodes of the tree
Scopes == {<<None, None>>, <<TreeId, None>>, <<TreeId, "A">>, <<TreeId, "B">>}

\* _get_node_memory raises TypeError when tree_memory["node_memory"] is not a
\* dict: `node_scope in memory` of an int
raises_TypeError(bb, tree_scope, node_scope) ==
    /\ tree_scope # None
    /\ node_scope # None
    /\ tree_scope \in DOMAIN bb.tree_memory
    /\ ~IsDict(bb.tree_memory[tree_scope]["node_memory"])

\* what get(key, tree_scope, node_scope) gives on a store: the exception, the
\* value of the key, or the default
Got(bb, key, tree_scope, node_scope) ==
    IF raises_TypeError(bb, tree_scope, node_scope)
    THEN [error |-> "TypeError"]
    ELSE IF key \in keys(bb, tree_scope, node_scope)
    THEN [value |-> memory(bb, tree_scope, node_scope)[key]]
    ELSE [default |-> TRUE]

\* what keys(tree_scope, node_scope) gives on a store
Listed(bb, tree_scope, node_scope) ==
    IF raises_TypeError(bb, tree_scope, node_scope)
    THEN [error |-> "TypeError"]
    ELSE [keys |-> keys(bb, tree_scope, node_scope)]

\* the store after a call that resolves (tree_scope, node_scope); an exception
\* is raised before anything is created
resolved(bb, tree_scope, node_scope) ==
    IF raises_TypeError(bb, tree_scope, node_scope)
    THEN bb
    ELSE get_memory(bb, tree_scope, node_scope)

\* the record of a call
Op(op, key, value, scope, result) ==
    [op |-> op, key |-> key, value |-> value,
     tree_scope |-> scope[1], node_scope |-> scope[2],
     result |-> result,
     raised |-> raises_TypeError(blackboard, scope[1], scope[2]),
     pre_blackboard |-> blackboard,
     calls |-> last_op.calls + 1]

\* a tree that is never ticked, and a new blackboard
InitBB ==
    /\ blackboard = NewBlackboard
    /\ children = TreeChildren
    /\ cls = [n \in Nodes |-> IF n \in {"C", "D"} THEN LeafClass ELSE "SequenceNode"]
    /\ root = "A"
    /\ ticks = 0
    /\ last_tick = NoTick
    /\ prev_returned = [n \in Nodes |-> NoStatus]
    /\ now = 0
    /\ counted = [n \in CountNodes |-> 0]
    /\ last_op = NoOp
    /\ held_info = NewTickInfo(TreeId, NewBlackboard)
    /\ run = NoRun

\* blackboard.set(key, value, tree_scope, node_scope)
BBSet ==
    /\ last_op.calls < MaxOps
    /\ \E key \in KeyNames, value \in Values, scope \in Scopes :
        /\ blackboard' =
            IF raises_TypeError(blackboard, scope[1], scope[2])
            THEN blackboard
            ELSE set(blackboard, key, value, scope[1], scope[2])
        /\ last_op' = Op("set", key, value, scope, None)
    /\ UNCHANGED <<cls, children, root, ticks, last_tick, prev_returned, now, counted,
                   held_info, run>>

\* blackboard.get(key, tree_scope, node_scope, default)
BBGet ==
    /\ last_op.calls < MaxOps
    /\ \E key \in KeyNames, default \in Defaults, scope \in Scopes :
        /\ blackboard' = resolved(blackboard, scope[1], scope[2])
        /\ last_op' = Op("get", key, default, scope,
                        IF raises_TypeError(blackboard, scope[1], scope[2])
                        THEN default
                        ELSE get(blackboard, key, scope[1], scope[2], default))
    /\ UNCHANGED <<cls, children, root, ticks, last_tick, prev_returned, now, counted,
                   held_info, run>>

\* blackboard.keys(tree_scope, node_scope)
BBKeys ==
    /\ last_op.calls < MaxOps
    /\ \E scope \in Scopes :
        /\ blackboard' = resolved(blackboard, scope[1], scope[2])
        /\ last_op' = Op("keys", None, None, scope,
                        Listed(blackboard, scope[1], scope[2]))
    /\ UNCHANGED <<cls, children, root, ticks, last_tick, prev_returned, now, counted,
                   held_info, run>>

NextBB == BBSet \/ BBGet \/ BBKeys

\* the calls made on a blackboard from outside a tick
SpecBB == InitBB /\ [][NextBB]_vars

-----------------------------------------------------------------------------
\* TickInfo used directly: enter_node and close_node called on one object

\* the most nodes entered on the object
MaxEnters == 3

\* last_op before any call made on held_info
NoCall ==
    [op |-> "none", node |-> None, raised |-> FALSE,
     pre |-> NewTickInfo(TreeId, NewBlackboard)]

\* a new TickInfo
InitInfo ==
    /\ blackboard = NewBlackboard
    /\ children = TreeChildren
    /\ cls \in {c \in TreeClasses : \A n \in Nodes : c[n] \in {"SequenceNode", LeafClass}}
    /\ root = "A"
    /\ ticks = 0
    /\ last_tick = NoTick
    /\ prev_returned = [n \in Nodes |-> NoStatus]
    /\ now = 0
    /\ counted = [n \in CountNodes |-> 0]
    /\ last_op = NoCall
    /\ held_info = NewTickInfo(TreeId, NewBlackboard)
    /\ run = NoRun

\* tick_info.enter_node(node)
EnterNode ==
    /\ held_info.node_count < MaxEnters
    /\ \E node \in Nodes :
          /\ held_info' = enter_node(held_info, node)
          /\ last_op' = [op |-> "enter_node", node |-> node, raised |-> FALSE,
                         pre |-> held_info]
    /\ UNCHANGED <<blackboard, cls, children, root, ticks, last_tick, prev_returned,
                   now, counted, run>>

\* tick_info.close_node(node); an exception leaves the object as it was
CloseNode ==
    /\ \E node \in Nodes :
       \E r \in {close_node(held_info, node)} :
          /\ held_info' = IF r.raised THEN held_info ELSE r
          /\ last_op' = [op |-> "close_node", node |-> node, raised |-> r.raised,
                         pre |-> held_info]
    /\ UNCHANGED <<blackboard, cls, children, root, ticks, last_tick, prev_returned,
                   now, counted, run>>

NextInfo == EnterNode \/ CloseNode

SpecInfo == InitInfo /\ [][NextInfo]_vars

-----------------------------------------------------------------------------
\* What the properties below read off the record of the most recent tick

\* the positions of the calls of hook ev of node in a log
Calls(log, ev, node) == {i \in 1..Len(log) : log[i].ev = ev /\ log[i].node = node}

\* the only position of the set
Pos(S) == CHOOSE i \in S : TRUE

\* node went through _execute in the most recent tick
Executed(node) == Calls(last_tick.log, "enter", node) # {}

\* the status _execute of node returned in the most recent tick
LastReturned(node) == Returned(last_tick.log, node)

\* the nodes the diff step of the most recent tick closed, in the order of the calls
ForcedClosed == [i \in 1..Len(last_tick.closed) |-> last_tick.closed[i].node]

\* the number of times the close hook of node was called in the most recent tick
CloseCalls(node) ==
    Cardinality(Calls(last_tick.log, "close", node))
        + Cardinality(Calls(last_tick.closed, "close", node))

\* the (0-based) indexes of the children of node that were executed in the most recent tick
ExecutedIdx(node) == {i \in 0..(Len(children[node]) - 1) : Executed(children[node][i + 1])}

\* the running_child_idx the store held for node when the most recent tick began
SavedIdx(node) == get(last_tick.pre_blackboard, "running_child_idx", TreeId, node, 0)

SequenceFamily == {"SequenceNode", "MemSequenceNode"}
SelectorFamily == {"SelectorNode", "MemSelectorNode"}

\* the child status on which a composite of this class goes on to the next child
Passes(class) == IF class \in SequenceFamily THEN SUCCESS ELSE FAILURE

-----------------------------------------------------------------------------
\* C1: every node that is open when a tick begins and is not executed during
\* the tick has its close hook called exactly once during the tick and has
\* is_open = false when the tick returns.
C1_UnvisitedOpenNodeClosedOnce ==
    \A n \in Nodes :
        (ticks >= 1 /\ IsOpen(last_tick.pre_blackboard, TreeId, n) /\ ~Executed(n))
            => (CloseCalls(n) = 1 /\ ~IsOpen(blackboard, TreeId, n))

\* C2: when the list persisted by the tick before is [A, B, C] and the list of
\* this tick is [A, D], the diff step closes exactly C and then B, each once,
\* and neither A nor D.
C2_DiffClosesCThenB ==
    (last_tick.last_open_nodes = <<"A", "B", "C">>
        /\ last_tick.current_open_nodes = <<"A", "D">>)
        => ForcedClosed = <<"C", "B">>

\* C3: when the list persisted by the tick before and the list of this tick are
\* identical, the diff step calls no close hook and changes no is_open flag
\* (and the list it persists is the list of this tick).
C3_SteadyStateNoForcedClose ==
    (ticks >= 1 /\ last_tick.last_open_nodes = last_tick.current_open_nodes)
        => /\ last_tick.closed = <<>>
           /\ \A n \in Nodes :
                IsOpen(blackboard, TreeId, n) = IsOpen(last_tick.exec_blackboard, TreeId, n)
           /\ get(blackboard, "open_nodes", TreeId, None, None) = last_tick.current_open_nodes

\* C3 witness: a second tick that left the same non-empty path open as the first
C3_Witness ==
    /\ ticks >= 2
    /\ last_tick.last_open_nodes = last_tick.current_open_nodes
    /\ Len(last_tick.current_open_nodes) >= 2

\* C4: the open hook of an executed node is called only when its is_open flag
\* was false when _execute began, and it leaves the flag true; a node that
\* returned Running in the tick before and is executed again is not opened again.
C4_OpenOncePerEpisode ==
    \A n \in Nodes :
        /\ \A i \in Calls(last_tick.log, "open", n) :
              /\ ~last_tick.log[Pos(Calls(last_tick.log, "enter", n))].is_open
              /\ last_tick.log[i].is_open
        /\ (prev_returned[n] = RUNNING /\ Executed(n))
              => Calls(last_tick.log, "open", n) = {}

\* C4 witness: a node was Running in one tick and executed again in the next
C4_Witness ==
    \E n \in Nodes :
        /\ prev_returned[n] = RUNNING
        /\ Executed(n)
        /\ LastReturned(n) = RUNNING
        /\ Calls(last_tick.log, "open", n) = {}

\* C5: in every _execute the close hook is called iff the status is not
\* Running; when it returns is_open = (status = Running); and when the status
\* is not Running the open-node stack is what it was before the _execute.
C5_CloseIffNotRunning ==
    \A n \in Nodes :
        Executed(n) =>
            LET i == Pos(Calls(last_tick.log, "enter", n))
                j == Pos(Calls(last_tick.log, "exit", n))
                r == last_tick.log[j].status
                before == SubSeq(last_tick.log[i].open_nodes, 1,
                                 Len(last_tick.log[i].open_nodes) - 1)
            IN  /\ Cardinality(Calls(last_tick.log, "exit", n)) = 1
                /\ (r # RUNNING) <=>
                     (\E c \in Calls(last_tick.log, "close", n) : i < c /\ c < j)
                /\ last_tick.log[j].is_open = (r = RUNNING)
                /\ (r # RUNNING) => last_tick.log[j].open_nodes = before

\* C5 witness: in one tick a nested node closed and another node stayed Running
C5_Witness ==
    /\ LastReturned("D") = SUCCESS
    /\ LastReturned("C") = RUNNING
    /\ LastReturned("A") = RUNNING

\* C6: a composite executes children left to right without skipping one; the
\* first executed child whose status is not Success (Sequence family) or not
\* Failure (Selector family) is the last one executed and its status is
\* returned verbatim; without such a child (also with no children) the
\* composite returns Success (Sequence family) or Failure (Selector family);
\* Sequence and Selector start at index 0 in every tick.
C6_CompositeIteration ==
    \A n \in Nodes :
        (cls[n] \in CompositeClasses /\ Executed(n)) =>
            LET ex == ExecutedIdx(n)
                child(i) == children[n][i + 1]
                stop == {i \in ex : LastReturned(child(i)) # Passes(cls[n])}
            IN  /\ \A i, j \in ex :
                     i < j =>
                        /\ \A m \in i..j : m \in ex
                        /\ Pos(Calls(last_tick.log, "exit", child(i)))
                              < Pos(Calls(last_tick.log, "enter", child(j)))
                /\ \A i \in ex :
                     Cardinality(Calls(last_tick.log, "enter", child(i))) = 1
                /\ \A i \in stop :
                     /\ \A j \in ex : j <= i
                     /\ LastReturned(n) = LastReturned(child(i))
                /\ stop = {} => LastReturned(n) = Passes(cls[n])
                /\ (cls[n] \in {"SequenceNode", "SelectorNode"} /\ children[n] # <<>>)
                     => 0 \in ex

\* C6 witness: a selector went past a failed child and returned the Error of the next
C6_Witness ==
    /\ cls["A"] = "SelectorNode"
    /\ LastReturned("D") = FAILURE
    /\ LastReturned("B") = ERROR
    /\ LastReturned("A") = ERROR
    /\ LastReturned("C") = ERROR
    /\ ~Executed("E")

C8_MemSequenceResumes ==
    \A n \in Nodes :
        \A k \in 0..(Len(children[n]) - 1) :
            (cls[n] = "MemSequenceNode" /\ prev_returned[n] = RUNNING
                /\ prev_returned[children[n][k + 1]] = RUNNING /\ Executed(n))
            => /\ k \in ExecutedIdx(n)
               /\ \A i \in ExecutedIdx(n) : i >= k

\* C8 witness: a MemSequence whose second child was Running is executed again
C8_Witness ==
    /\ cls["A"] = "MemSequenceNode"
    /\ prev_returned["A"] = RUNNING
    /\ prev_returned["B"] = RUNNING
    /\ Executed("B")
    /\ ~Executed("D")

\* C9: when the child at index k > 0 of a MemSelector returned Running in one
\* tick and the MemSelector is executed in the next tick, the first child
\* executed is the one at index k and no child before it is executed.
C9_MemSelectorResumes ==
    \A n \in Nodes :
        \A k \in 1..(Len(children[n]) - 1) :
            (cls[n] = "MemSelectorNode" /\ prev_returned[n] = RUNNING
                /\ prev_returned[children[n][k + 1]] = RUNNING /\ Executed(n))
            => /\ k \in ExecutedIdx(n)
               /\ \A i \in ExecutedIdx(n) : i >= k

\* C10: when a MemSequence returned a status other than Running in one tick,
\* the next tick in which it is executed starts iterating at child index 0.
C10_MemSequenceRestartsAtZero ==
    \A n \in Nodes :
        (cls[n] = "MemSequenceNode" /\ children[n] # <<>>
            /\ prev_returned[n] \in {SUCCESS, FAILURE, ERROR} /\ Executed(n))
        => 0 \in ExecutedIdx(n)

\* C11: when an executed child of a composite (of any of the four classes)
\* returns Error, no later child is executed in that tick, the composite
\* returns Error, and the composite is closed (close hook called once,
\* is_open false when its _execute returns).
C11_ErrorStopsComposite ==
    \A n \in Nodes :
        \A i \in ExecutedIdx(n) :
            (cls[n] \in CompositeClasses /\ Executed(n)
                /\ LastReturned(children[n][i + 1]) = ERROR)
            => /\ \A j \in ExecutedIdx(n) : j <= i
               /\ LastReturned(n) = ERROR
               /\ Cardinality(Calls(last_tick.log, "close", n)) = 1
               /\ ~last_tick.log[Pos(Calls(last_tick.log, "exit", n))].is_open

\* C11 witness: the first child of a sequence returned Error and the second was not executed
C11_Witness ==
    /\ cls["A"] = "SequenceNode"
    /\ LastReturned("D") = ERROR
    /\ LastReturned("A") = ERROR
    /\ ~Executed("B")
    /\ ~IsOpen(blackboard, TreeId, "A")

-----------------------------------------------------------------------------
\* What the decorator properties read off the record of the most recent tick

\* the number of calls of hook ev of node in the most recent tick
NumCalls(ev, node) == Cardinality(Calls(last_tick.log, ev, node))

\* the status the tick method of node returned in the most recent tick
TickReturned(node) == last_tick.log[Pos(Calls(last_tick.log, "ticked", node))].status

\* node is a decorator of this class with exactly one child, and it was executed
\* in the most recent tick
DecoratorRan(node, class) ==
    /\ cls[node] = class
    /\ Len(children[node]) = 1
    /\ Executed(node)

\* the value of a key of the scope of node in a store, d when it is not set
NodeValue(bb, node, key, d) ==
    IF key \in NodeKeys(bb, TreeId, node)
    THEN bb.tree_memory[TreeId].node_memory[node][key]
    ELSE d

\* C12: an Inverter with exactly one child executes that child once through
\* _execute (one enter, one tick, one exit) and returns Failure for the
\* child's Success, Success for the child's Failure, and the child's Running
\* or Error unchanged.
C12_InverterSwaps ==
    \A n \in Nodes :
        DecoratorRan(n, "InverterNode")
        => /\ NumCalls("enter", children[n][1]) = 1
           /\ NumCalls("tick", children[n][1]) = 1
           /\ NumCalls("exit", children[n][1]) = 1
           /\ LastReturned(children[n][1]) = SUCCESS => LastReturned(n) = FAILURE
           /\ LastReturned(children[n][1]) = FAILURE => LastReturned(n) = SUCCESS
           /\ LastReturned(children[n][1]) = RUNNING => LastReturned(n) = RUNNING
           /\ LastReturned(children[n][1]) = ERROR => LastReturned(n) = ERROR

\* C12 witness: the child of an Inverter returned Success and the Inverter Failure
C12_Witness ==
    /\ DecoratorRan("B", "InverterNode")
    /\ LastReturned("C") = SUCCESS
    /\ LastReturned("B") = FAILURE

\* node is a Timeout with one child and a configured duration, executed in the
\* most recent tick
TimeoutRan(node) ==
    /\ DecoratorRan(node, "TimeoutNode")
    /\ "duration" \in NodeKeys(last_tick.exec_blackboard, TreeId, node)

\* t - s: the reading of time.time() in the most recent tick minus the start
\* time recorded when the node was opened
Elapsed(node) == now - NodeValue(last_tick.exec_blackboard, node, "start_time", 0)

Duration(node) == NodeValue(last_tick.exec_blackboard, node, "duration", 0)

\* the Timeout failed without executing its child
TimedOut(node) ==
    /\ LastReturned(node) = FAILURE
    /\ ~Executed(children[node][1])

\* the Timeout executed its child once and returned the child's result
PassedThrough(node) ==
    /\ NumCalls("enter", children[node][1]) = 1
    /\ LastReturned(children[node][1]) \in ResultType
    /\ LastReturned(node) = LastReturned(children[node][1])

\* C13 as stated: with t - s >= D the Timeout fails without executing the
\* child, with t - s < D it executes the child once and returns its result.
C13_TimeoutAtDuration ==
    \A n \in Nodes :
        TimeoutRan(n)
        => /\ Elapsed(n) >= Duration(n) => TimedOut(n)
           /\ Elapsed(n) < Duration(n) => PassedThrough(n)

\* C13: a Timeout with one child and duration D, opened at s and ticked at t,
\* fails without executing the child when t - s > D, and executes the child
\* once and returns its result unchanged when t - s <= D; it returns Success
\* only when the child did.
C13_TimeoutPastDuration ==
    \A n \in Nodes :
        TimeoutRan(n)
        => /\ Elapsed(n) > Duration(n) => TimedOut(n)
           /\ Elapsed(n) <= Duration(n) => PassedThrough(n)
           /\ LastReturned(n) = SUCCESS => LastReturned(children[n][1]) = SUCCESS

\* C13 witness: ticked exactly D > 0 after it was opened, the Timeout executed
\* its child, which is still running
C13_Witness ==
    /\ TimeoutRan("B")
    /\ Duration("B") > 0
    /\ Elapsed("B") = Duration("B")
    /\ LastReturned("C") = RUNNING
    /\ LastReturned("B") = RUNNING

\* C14: an Inverter, Timeout or Count node whose number of children is not one
\* returns Error when ticked, executes and ticks no child, raises nothing, and
\* its tick method writes no field to its scope (no count in particular), for
\* a Timeout also when no duration was set.
C14_WrongChildCountIsError ==
    \A n \in Nodes :
        (cls[n] \in DecoratorClasses /\ Len(children[n]) # 1 /\ Executed(n))
        => /\ ~last_tick.raised
           /\ LastReturned(n) = ERROR
           /\ TickReturned(n) = ERROR
           /\ \A i \in 1..Len(children[n]) :
                /\ NumCalls("enter", children[n][i]) = 0
                /\ NumCalls("tick", children[n][i]) = 0
           /\ "count" \notin NodeKeys(blackboard, TreeId, n)
           /\ last_tick.log[Pos(Calls(last_tick.log, "ticked", n))].keys
                = last_tick.log[Pos(Calls(last_tick.log, "tick", n))].keys

\* C14 witness: a Timeout with two children and no duration returned Error
C14_Witness ==
    /\ cls["B"] = "TimeoutNode"
    /\ Len(children["B"]) = 2
    /\ "duration" \notin NodeKeys(blackboard, TreeId, "B")
    /\ LastReturned("B") = ERROR

\* the count persisted in the scope of node in a store, 0 before it is written
Count(bb, node) == NodeValue(bb, node, "count", 0)

\* C15: a Count node with exactly one child ticks the child once per tick,
\* returns the child's result unchanged and adds 1 to its count whatever that
\* result is, so that count is the number of ticks in which the node was
\* executed; a PrintNode set up to read the count prints that number, 3 on the
\* third tick.
C15_CountIsNumberOfTicks ==
    \A n \in Nodes :
        (cls[n] = "CountNode" /\ Len(children[n]) = 1)
        => /\ Count(blackboard, n) = counted[n]
           /\ Executed(n)
              => /\ NumCalls("tick", children[n][1]) = 1
                 /\ TickReturned(children[n][1]) \in ResultType
                 /\ LastReturned(n) = TickReturned(children[n][1])
                 /\ Count(blackboard, n) = Count(last_tick.pre_blackboard, n) + 1
           /\ ~Executed(n)
              => Count(blackboard, n) = Count(last_tick.pre_blackboard, n)
           /\ Executed("D") => last_tick.printed = <<ToString(counted[n])>>

\* C15 witness: on the third tick the reader printed the count 3
C15_Witness ==
    /\ DecoratorRan("B", "CountNode")
    /\ ticks = 3
    /\ counted["B"] = 3
    /\ TickReturned("C") = SUCCESS
    /\ last_tick.printed = <<"3">>

\* the events of a log between the call of the tick method of node and its return
DuringTick(log, node) ==
    {i \in 1..Len(log) :
        /\ i >= Pos(Calls(log, "tick", node))
        /\ i <= Pos(Calls(log, "ticked", node))}

\* C16: ticking a Count node calls no enter, open, close or exit hook of its
\* child, leaves the child's is_open flag as it was (unset), never has the
\* child on the open-node stack, and does not count the child as visited.
C16_CountChildUntracked ==
    \A n \in Nodes :
        DecoratorRan(n, "CountNode")
        => /\ NumCalls("tick", children[n][1]) = 1
           /\ \A ev \in {"enter", "open", "close", "exit"} :
                /\ NumCalls(ev, children[n][1]) = 0
                /\ Calls(last_tick.closed, ev, children[n][1]) = {}
           /\ "is_open" \notin NodeKeys(blackboard, TreeId, children[n][1])
           /\ \A i \in 1..Len(last_tick.log) :
                \A j \in 1..Len(last_tick.log[i].open_nodes) :
                    last_tick.log[i].open_nodes[j] # children[n][1]
           /\ \A j \in 1..Len(last_tick.current_open_nodes) :
                last_tick.current_open_nodes[j] # children[n][1]
           /\ \A i \in DuringTick(last_tick.log, n) :
                last_tick.log[i].node_count
                    = last_tick.log[Pos(Calls(last_tick.log, "tick", n))].node_count

\* C16 witness: the child of a Count node returned Running from its tick
C16_Witness ==
    /\ DecoratorRan("B", "CountNode")
    /\ LastReturned("B") = RUNNING
    /\ TickReturned("C") = RUNNING
    /\ ~IsOpen(blackboard, TreeId, "C")

\* the positions of the enter hooks in the log of the most recent tick
Enters == {i \in 1..Len(last_tick.log) : last_tick.log[i].ev = "enter"}

\* the nodes executed in the most recent tick that returned Running, in the
\* order they were entered
EnteredRunning ==
    LET es == SelectSeq(last_tick.log,
                LAMBDA e : e.ev = "enter" /\ Returned(last_tick.log, e.node) = RUNNING)
    IN  [i \in 1..Len(es) |-> es[i].node]

\* C17: a tick starts with an empty open-node list and a visit counter of 0,
\* each _execute adds 1 to the counter and pushes the node; after the tick the
\* tree's node_count is the number of _execute calls of that tick alone and
\* the tree's open_nodes is the sequence of the nodes executed in that tick
\* that returned Running, in the order they were entered.
C17_PerTickBookkeeping ==
    (ticks > 0 /\ ~last_tick.raised)
    => /\ \A i \in Enters :
            /\ last_tick.log[i].node_count = Cardinality({j \in Enters : j <= i})
            /\ last_tick.log[i].open_nodes # <<>>
            /\ last_tick.log[i].open_nodes[Len(last_tick.log[i].open_nodes)]
                    = last_tick.log[i].node
       /\ last_tick.log[1].open_nodes = <<root>>
       /\ last_tick.node_count = Cardinality(Enters)
       /\ get(blackboard, "node_count", TreeId, None, None) = Cardinality(Enters)
       /\ get(blackboard, "open_nodes", TreeId, None, None) = EnteredRunning

\* C17 witness: in a second tick three of the four executed nodes returned Running
C17_Witness ==
    /\ ticks = 2
    /\ ~last_tick.raised
    /\ get(blackboard, "node_count", TreeId, None, None) = 4
    /\ get(blackboard, "open_nodes", TreeId, None, None) = <<"A", "B", "C">>
    /\ LastReturned("D") = SUCCESS

-----------------------------------------------------------------------------
\* What the blackboard properties read off the record of the most recent call

\* the most recent call was op, and it returned
Called(op) == last_op.op = op /\ ~last_op.raised

\* the scopes that exist in a store: the trees, and the nodes of each tree
\* whose node_memory is a dict
ExistingScopes(bb) ==
    [t \in DOMAIN bb.tree_memory |->
        IF IsDict(bb.tree_memory[t]["node_memory"])
        THEN DOMAIN bb.tree_memory[t]["node_memory"]
        ELSE {}]

\* C18: set(k, v, scope) returns and a get(k, scope) after it returns v, for
\* the global scope, a tree's and a node's, whether or not the scope existed
\* or held another value for k before.
C18_SetThenGet ==
    last_op.op = "set"
    => /\ ~last_op.raised
       /\ Got(blackboard, last_op.key, last_op.tree_scope, last_op.node_scope)
            = [value |-> last_op.value]

\* C19: get(k, scope, default = d) of a key that is not set in the scope
\* returns d and leaves the store as it was, the existing tree and node scopes
\* and the keys of every scope included.
C19_GetLeavesStore ==
    (Called("get")
        /\ Got(last_op.pre_blackboard, last_op.key, last_op.tree_scope,
               last_op.node_scope) = [default |-> TRUE])
    => /\ last_op.result = last_op.value
       /\ blackboard = last_op.pre_blackboard
       /\ ExistingScopes(blackboard) = ExistingScopes(last_op.pre_blackboard)

\* C20: set(k1, v, s1) changes neither what get(k2, s2) returns nor what
\* keys(s2) lists, for every scope s2 other than s1 and every key k2.
C20_ScopesIndependent ==
    Called("set")
    => \A scope \in Scopes \ {<<last_op.tree_scope, last_op.node_scope>>} :
        /\ Listed(blackboard, scope[1], scope[2])
            = Listed(last_op.pre_blackboard, scope[1], scope[2])
        /\ \A key \in KeyNames :
            Got(blackboard, key, scope[1], scope[2])
                = Got(last_op.pre_blackboard, key, scope[1], scope[2])

-----------------------------------------------------------------------------
\* What the properties below read off the store when a tick has returned

\* the most recent call of tick returned (some tick was made, nothing was raised)
TickReturnedNormally == ticks > 0 /\ ~last_tick.raised

\* the nodes whose is_open flag is true under the tree's scope
OpenFlagged == {n \in Nodes : IsOpen(blackboard, TreeId, n)}

\* the nodes of a list
Elements(list) == {list[i] : i \in 1..Len(list)}

\* the open_nodes list persisted under the tree's scope
PersistedOpenNodes == get(blackboard, "open_nodes", TreeId, None, None)

\* C21: every call of tick returns one of Success, Failure, Running, Error and
\* raises nothing, whatever the store holds, a Timeout with one child and no
\* duration included.
C21_TickIsTotal ==
    ticks > 0 => (~last_tick.raised /\ last_tick.status \in ResultType)

\* C24: when a tick returns, the nodes whose is_open flag is true are exactly
\* the nodes of the persisted open_nodes list, and none is left open once the
\* root returned a result other than Running.
C24_OpenFlagsMatchOpenNodes ==
    TickReturnedNormally
    => /\ OpenFlagged = Elements(PersistedOpenNodes)
       /\ last_tick.status # RUNNING => OpenFlagged = {}

\* C26: the diff step closes no node of the current tick's open-node list: the
\* list persisted is the list root._execute left, and every node on it keeps
\* is_open = true.
C26_DiffSparesActivePath ==
    TickReturnedNormally
    => /\ Elements(ForcedClosed) \cap Elements(last_tick.current_open_nodes) = {}
       /\ PersistedOpenNodes = last_tick.current_open_nodes
       /\ \A n \in Elements(last_tick.current_open_nodes) :
            /\ LastReturned(n) = RUNNING
            /\ IsOpen(last_tick.exec_blackboard, TreeId, n)
            /\ IsOpen(blackboard, TreeId, n)

\* C26 witness: the diff step closed a node of the last tick's list while
\* another path is running
C26_Witness ==
    /\ TickReturnedNormally
    /\ ForcedClosed # <<>>
    /\ Len(last_tick.current_open_nodes) >= 2

\* C25: within one tick the close hook of each node is called at most once: a
\* node that closed itself because it returned a result other than Running is
\* not closed again by the diff step.
C25_NoDoubleClose ==
    TickReturnedNormally => \A n \in Nodes : CloseCalls(n) <= 1

\* C22: close_node called with a node that is not on top of the stack of open
\* nodes, the empty stack included, does not raise and leaves the stack as it
\* was; it pops exactly one entry when the node is the top entry.
C22_CloseNodeDefensive ==
    last_op.op = "close_node"
    => /\ ~last_op.raised
       /\ held_info.node_count = last_op.pre.node_count
       /\ held_info.open_nodes =
            IF /\ last_op.pre.open_nodes # <<>>
               /\ last_op.pre.open_nodes[Len(last_op.pre.open_nodes)] = last_op.node
            THEN SubSeq(last_op.pre.open_nodes, 1, Len(last_op.pre.open_nodes) - 1)
            ELSE last_op.pre.open_nodes

\* the children of the root
RootChildren == Elements(children[root])

\* the loop has ended with Success
Completed == ticks > 0 /\ ~last_tick.raised /\ last_tick.status = SUCCESS

\* C23: a tree whose root is a MemSequenceNode over distinct leaves that each
\* return Running for finitely many ticks after they are opened and then
\* Success, ticked repeatedly with the same blackboard, returns Running until it
\* eventually returns Success; over the run each child is opened exactly once
\* and returns Success exactly once, and no child that has succeeded is
\* executed again.
C23_DrivenToCompletion ==
    /\ [](ticks > 0 => ~last_tick.raised /\ last_tick.status \in {RUNNING, SUCCESS})
    /\ [](\A n \in RootChildren : run.opened[n] <= 1 /\ run.succeeded[n] <= 1)
    /\ [](~run.reran)
    /\ [](Completed => \A n \in RootChildren : run.opened[n] = 1 /\ run.succeeded[n] = 1)
    /\ <>Completed

C23_Witness ==
    /\ Completed
    /\ Len(children[root]) = 3
    /\ prev_returned[root] = RUNNING
    /\ \A n \in RootChildren : run.opened[n] = 1 /\ run.succeeded[n] = 1

\* the tree's scope exists in both blackboards with the same dict, or in neither
SameTreeScope(bb1, bb2, tree) ==
    /\ (tree \in DOMAIN bb1.tree_memory) = (tree \in DOMAIN bb2.tree_memory)
    /\ tree \in DOMAIN bb1.tree_memory
       => bb1.tree_memory[tree] = bb2.tree_memory[tree]

\* the keys stored for the node under the tree's scope
StoredKeys(tree, node) == NodeKeys(blackboard, tree, node)

\* C27: a tick of one tree writes only under that tree's scope: the global
\* scope and the scope of every other tree (its open_nodes, node_count and each
\* node's is_open, running_child_idx, count and start_time) are as they were
\* before the tick, also when the trees share their node objects.
C27_TreeIsolation ==
    ticks > 0
    => /\ blackboard.base_memory = last_tick.pre_blackboard.base_memory
       /\ \A other \in Trees \ {last_tick.tree} :
            SameTreeScope(blackboard, last_tick.pre_blackboard, other)

C27_Witness ==
    /\ ticks > 1
    /\ ~last_tick.raised
    /\ last_tick.tree = OtherTreeId
    /\ last_tick.current_open_nodes # <<>>
    /\ blackboard # last_tick.pre_blackboard
    /\ get(blackboard, "open_nodes", TreeId, None, None) = <<"A", "B", "C">>
    /\ "is_open" \in StoredKeys(TreeId, "C")
    /\ \E k \in {"running_child_idx", "count", "start_time"} :
          \E n \in {"A", "B"} : k \in StoredKeys(TreeId, n)

====
